---- MODULE Spec2Model ----
(***************************************************************************)
(* A model of airflow/stats.py: the metrics gateway `Stats`, whose         *)
(* metaclass `_Stats` resolves one backend logger and caches it in         *)
(* `_Stats.instance`, the two validating loggers SafeStatsdLogger and      *)
(* SafeDogStatsdLogger, the `validate_stat` decorator, the default stat    *)
(* name handler and the AllowListValidator.                                *)
(*                                                                         *)
(* Python strings are sequences of one-character strings.  An optional     *)
(* value (None or a value) is a record [isNone, v].  The statsd and        *)
(* datadog clients and the configuration are outside the module: a client  *)
(* is an object with an identity that records the calls made on it, and    *)
(* whose constructor and methods may raise; the configuration is a record  *)
(* of the options the module reads, which may change at any time.          *)
(***************************************************************************)
EXTENDS Integers, Sequences, FiniteSets, TLC

(***************************************************************************)
(* Bounds of the model.                                                    *)
(***************************************************************************)
\* threads that import the module, create classes with the metaclass and emit
NThreads == 2
\* total number of _Stats.__init__ calls in one behaviour
MaxInits == 2

Threads == 1..NThreads

(***************************************************************************)
(* Strings.                                                                *)
(***************************************************************************)
None == [isNone |-> TRUE, v |-> <<>>]
Some(x) == [isNone |-> FALSE, v |-> x]

UpperLetters ==
    << "A", "B", "C", "D", "E", "F", "G", "H", "I", "J", "K", "L", "M",
       "N", "O", "P", "Q", "R", "S", "T", "U", "V", "W", "X", "Y", "Z" >>
LowerLetters ==
    << "a", "b", "c", "d", "e", "f", "g", "h", "i", "j", "k", "l", "m",
       "n", "o", "p", "q", "r", "s", "t", "u", "v", "w", "x", "y", "z" >>
Digits == << "0", "1", "2", "3", "4", "5", "6", "7", "8", "9" >>
Whitespace == {" ", "\t", "\n", "\r"}

Range(f) == {f[i] : i \in DOMAIN f}

UpperSet == Range(UpperLetters)

\* the lower-case letter of every upper-case letter
LowerOf == [c \in UpperSet |-> LowerLetters[CHOOSE i \in DOMAIN UpperLetters : UpperLetters[i] = c]]

\* str.lower() on one character
LowerChar(c) == IF c \in UpperSet THEN LowerOf[c] ELSE c

\* str.lower()
Lower(s) == [i \in 1..Len(s) |-> LowerChar(s[i])]

\* str.lstrip() and str.rstrip(): drop leading, trailing whitespace
RECURSIVE LStrip(_)
LStrip(s) == IF s = <<>> \/ Head(s) \notin Whitespace THEN s ELSE LStrip(Tail(s))

RECURSIVE RStrip(_)
RStrip(s) ==
    IF s = <<>> \/ s[Len(s)] \notin Whitespace THEN s ELSE RStrip(SubSeq(s, 1, Len(s) - 1))

\* str.strip()
Strip(s) == RStrip(LStrip(s))

\* str.split(','): the tokens between commas, empty tokens included
RECURSIVE Split(_)
Split(s) ==
    LET commas == {i \in 1..Len(s) : s[i] = ","}
    IN  IF commas = {} THEN << s >>
        ELSE LET i == CHOOSE k \in commas : \A j \in commas : k <= j
             IN  << SubSeq(s, 1, i - 1) >> \o Split(SubSeq(s, i + 1, Len(s)))

\* s.startswith(p) for one prefix p
StartsWith(s, p) == Len(p) <= Len(s) /\ SubSeq(s, 1, Len(p)) = p

\* s.startswith(t) for a tuple t of prefixes
StartsWithAny(s, t) == \E i \in DOMAIN t : StartsWith(s, t[i])

(***************************************************************************)
(* stat_name_default_handler and the configured handler.                   *)
(***************************************************************************)
ALLOWED_CHARACTERS ==
    Range(LowerLetters) \cup Range(UpperLetters) \cup Range(Digits) \cup {"_", ".", "-"}

max_length == 250

\* a stat argument: a string, or a value that is not a string
Str(s) == [isstr |-> TRUE, chars |-> s]
NotAString == [isstr |-> FALSE, chars |-> <<>>]

\* the result of a handler: the name it returns, or InvalidStatsNameException
Valid(s) == [ok |-> TRUE, name |-> s]
Invalid == [ok |-> FALSE, name |-> <<>>]

\* as stat_name_default_handler, but with `>=` in the length test
stat_name_default_handler_LengthExclusive(stat) ==
    IF ~stat.isstr THEN Invalid
    ELSE IF Len(stat.chars) >= max_length THEN Invalid
    ELSE IF ~(\A i \in 1..Len(stat.chars) : stat.chars[i] \in ALLOWED_CHARACTERS) THEN Invalid
    ELSE Valid(stat.chars)

stat_name_default_handler(stat) ==
    IF ~stat.isstr THEN Invalid
    ELSE IF Len(stat.chars) > max_length THEN Invalid
    ELSE IF ~(\A i \in 1..Len(stat.chars) : stat.chars[i] \in ALLOWED_CHARACTERS) THEN Invalid
    ELSE Valid(stat.chars)

\* A handler a deployment may configure as scheduler/stat_name_handler: it
\* replaces every space by '_' and rejects the empty name and non-strings.
custom_stat_name_handler(stat) ==
    IF ~stat.isstr \/ stat.chars = <<>> THEN Invalid
    ELSE Valid([i \in 1..Len(stat.chars) |->
                  IF stat.chars[i] = " " THEN "_" ELSE stat.chars[i]])

\* conf.getimport('scheduler', 'stat_name_handler') or stat_name_default_handler
get_current_handler_stat_name_func(c, stat) ==
    IF c.stat_name_handler = "custom"
    THEN custom_stat_name_handler(stat)
    ELSE stat_name_default_handler(stat)

(***************************************************************************)
(* AllowListValidator.                                                     *)
(***************************************************************************)
\* as AllowListValidator, but the items that are empty once stripped are left out
AllowListValidator_SkipEmpty(allow_list) ==
    IF ~allow_list.isNone /\ allow_list.v # <<>>
    THEN LET items == Split(allow_list.v)
             kept == SelectSeq(items, LAMBDA item : Strip(item) # <<>>)
         IN  Some([i \in DOMAIN kept |-> Lower(Strip(kept[i]))])
    ELSE None

\* __init__: the stored allow_list, None or a tuple of prefixes
AllowListValidator(allow_list) ==
    IF ~allow_list.isNone /\ allow_list.v # <<>>
    THEN LET items == Split(allow_list.v)
         IN  Some([i \in DOMAIN items |-> Lower(Strip(items[i]))])
    ELSE None

\* as AllowListTest, but the name has to equal a stored item
AllowListTest_ExactMatch(al, stat) ==
    IF ~al.isNone
    THEN \E i \in DOMAIN al.v : Lower(Strip(stat)) = al.v[i]
    ELSE TRUE

\* test(stat) on a validator whose stored allow_list is al
AllowListTest(al, stat) ==
    IF ~al.isNone
    THEN StartsWithAny(Lower(Strip(stat)), al.v)
    ELSE TRUE

(***************************************************************************)
(* The configuration (airflow.configuration.conf, section [scheduler]).    *)
(***************************************************************************)
\* the values of scheduler/statsd_allow_list that the model draws from:
\* unset and "a, B "
AllowListConfs == {None, Some(<< "a", ",", " ", "B", " " >>)}

\* the values of scheduler/statsd_datadog_tags: unset and "k:v,e"
DatadogTagsConfs == {None, Some(<< "k", ":", "v", ",", "e" >>)}

\* statsd_datadog_enabled: "absent" when has_option is false, else its boolean
\* statsd_custom_client_path: "absent", or the class the path imports: a
\*   subclass of statsd.StatsClient ("subclass") or some other class ("other")
Configs ==
    [ statsd_datadog_enabled : {"absent", "False", "True"},
      statsd_on : BOOLEAN,
      statsd_custom_client_path : {"absent", "subclass", "other"},
      statsd_allow_list : AllowListConfs,
      statsd_datadog_tags : DatadogTagsConfs,
      stat_name_handler : {"default", "custom"} ]

ConfKeys ==
    { "statsd_datadog_enabled", "statsd_on", "statsd_custom_client_path",
      "statsd_allow_list", "statsd_datadog_tags", "stat_name_handler" }

(***************************************************************************)
(* Loggers and clients.                                                    *)
(***************************************************************************)
\* a client object: its identity, its class and, for DogStatsd, its constant_tags
Client(id, cls, tags) == [id |-> id, cls |-> cls, constant_tags |-> tags]
NoClient == Client(0, "none", <<>>)

\* _Stats.instance = None
NoInstance == [kind |-> "none", id |-> 0, client |-> NoClient, allow_list |-> None]

\* DummyStatsLogger(): the object with identity id
DummyStatsLogger(id) == [kind |-> "dummy", id |-> id, client |-> NoClient, allow_list |-> None]

\* as SafeStatsdLogger, but the validator passed in is dropped for the default one
SafeStatsdLogger_DefaultValidator(id, statsd_client, allow_list_validator) ==
    [kind |-> "statsd", id |-> id, client |-> statsd_client, allow_list |-> None]

\* SafeStatsdLogger(statsd_client, allow_list_validator).__init__
SafeStatsdLogger(id, statsd_client, allow_list_validator) ==
    [kind |-> "statsd", id |-> id, client |-> statsd_client, allow_list |-> allow_list_validator]

\* SafeDogStatsdLogger(dogstatsd_client, allow_list_validator).__init__
SafeDogStatsdLogger(id, dogstatsd_client, allow_list_validator) ==
    [kind |-> "dog", id |-> id, client |-> dogstatsd_client, allow_list |-> allow_list_validator]

\* _Stats.get_constant_tags: the list of tags from statsd_datadog_tags
get_constant_tags(c) ==
    IF c.statsd_datadog_tags.isNone \/ c.statsd_datadog_tags.v = <<>>
    THEN <<>>
    ELSE Split(c.statsd_datadog_tags.v)

\* what a call of a client method does: it returns a value or it raises
Return(x) == [kind |-> "return", val |-> x]
Raise(e) == [kind |-> "raise", val |-> e]
SinkOutcomes == { Return("r1"), Raise("OSError"), Raise("InvalidStatsNameException") }

\* the result of a logger method: what the caller gets (result), the calls made
\* on the client (calls), the entries written to the log (logs) and the order of
\* the steps taken (steps)
Done(result, calls, logs, steps) ==
    [result |-> result, calls |-> calls, logs |-> logs, steps |-> steps]

\* `tags or []`
TagsOrEmpty(tags) == IF tags.isNone THEN <<>> ELSE tags.v

\* SafeStatsdLogger.incr/decr/gauge/timing (the undecorated bodies): a holds
\* the caller's arguments, so is what the client does when called
SafeStatsdLogger_incr(self, stat, a, so) ==
    IF AllowListTest(self.allow_list, stat)
    THEN Done(so, << [method |-> "incr", args |-> << stat, a.v, a.rate >>] >>, <<>>, << "test", "sink" >>)
    ELSE Done(Return("None"), <<>>, <<>>, << "test" >>)

SafeStatsdLogger_decr(self, stat, a, so) ==
    IF AllowListTest(self.allow_list, stat)
    THEN Done(so, << [method |-> "decr", args |-> << stat, a.v, a.rate >>] >>, <<>>, << "test", "sink" >>)
    ELSE Done(Return("None"), <<>>, <<>>, << "test" >>)

SafeStatsdLogger_gauge(self, stat, a, so) ==
    IF AllowListTest(self.allow_list, stat)
    THEN Done(so, << [method |-> "gauge", args |-> << stat, a.v, a.rate, a.delta >>] >>, <<>>,
              << "test", "sink" >>)
    ELSE Done(Return("None"), <<>>, <<>>, << "test" >>)

SafeStatsdLogger_timing(self, stat, a, so) ==
    IF AllowListTest(self.allow_list, stat)
    THEN Done(so, << [method |-> "timing", args |-> << stat, a.v >>] >>, <<>>, << "test", "sink" >>)
    ELSE Done(Return("None"), <<>>, <<>>, << "test" >>)

\* SafeDogStatsdLogger.incr/decr/gauge/timing (the undecorated bodies)
SafeDogStatsdLogger_incr(self, stat, a, so) ==
    IF AllowListTest(self.allow_list, stat)
    THEN Done(so, << [method |-> "increment",
                      kwargs |-> [metric |-> stat, value |-> a.v,
                                  tags |-> TagsOrEmpty(a.tags), sample_rate |-> a.rate]] >>,
              <<>>, << "test", "sink" >>)
    ELSE Done(Return("None"), <<>>, <<>>, << "test" >>)

SafeDogStatsdLogger_decr(self, stat, a, so) ==
    IF AllowListTest(self.allow_list, stat)
    THEN Done(so, << [method |-> "decrement",
                      kwargs |-> [metric |-> stat, value |-> a.v,
                                  tags |-> TagsOrEmpty(a.tags), sample_rate |-> a.rate]] >>,
              <<>>, << "test", "sink" >>)
    ELSE Done(Return("None"), <<>>, <<>>, << "test" >>)

SafeDogStatsdLogger_gauge(self, stat, a, so) ==
    IF AllowListTest(self.allow_list, stat)
    THEN Done(so, << [method |-> "gauge",
                      kwargs |-> [metric |-> stat, value |-> a.v,
                                  tags |-> TagsOrEmpty(a.tags), sample_rate |-> a.rate]] >>,
              <<>>, << "test", "sink" >>)
    ELSE Done(Return("None"), <<>>, <<>>, << "test" >>)

\* as SafeDogStatsdLogger_timing, without the allow list test
SafeDogStatsdLogger_timing_Unfiltered(self, stat, a, so) ==
    Done(so, << [method |-> "timing",
                 kwargs |-> [metric |-> stat, value |-> a.v, tags |-> TagsOrEmpty(a.tags)]] >>,
         <<>>, << "test", "sink" >>)

SafeDogStatsdLogger_timing(self, stat, a, so) ==
    IF AllowListTest(self.allow_list, stat)
    THEN Done(so, << [method |-> "timing",
                      kwargs |-> [metric |-> stat, value |-> a.v, tags |-> TagsOrEmpty(a.tags)]] >>,
              <<>>, << "test", "sink" >>)
    ELSE Done(Return("None"), <<>>, <<>>, << "test" >>)

\* the method named op of the logger self, without its decorator
Undecorated(self, op, stat, a, so) ==
    CASE self.kind = "statsd" /\ op = "incr" -> SafeStatsdLogger_incr(self, stat, a, so)
      [] self.kind = "statsd" /\ op = "decr" -> SafeStatsdLogger_decr(self, stat, a, so)
      [] self.kind = "statsd" /\ op = "gauge" -> SafeStatsdLogger_gauge(self, stat, a, so)
      [] self.kind = "statsd" /\ op = "timing" -> SafeStatsdLogger_timing(self, stat, a, so)
      [] self.kind = "dog" /\ op = "incr" -> SafeDogStatsdLogger_incr(self, stat, a, so)
      [] self.kind = "dog" /\ op = "decr" -> SafeDogStatsdLogger_decr(self, stat, a, so)
      [] self.kind = "dog" /\ op = "gauge" -> SafeDogStatsdLogger_gauge(self, stat, a, so)
      [] self.kind = "dog" /\ op = "timing" -> SafeDogStatsdLogger_timing(self, stat, a, so)

\* log.error('Invalid stat name: %s.', stat, exc_info=True)
InvalidStatNameLog(stat) == [level |-> "error", msg |-> "Invalid stat name", stat |-> stat]

\* as validate_stat, but an invalid name is dropped without a log entry
validate_stat_NoLog(self, op, stat, a, so, c) ==
    LET handled == get_current_handler_stat_name_func(c, stat)
    IN  IF ~handled.ok
        THEN Done(Return("None"), <<>>, <<>>, << "validate" >>)
        ELSE LET r == Undecorated(self, op, handled.name, a, so)
             IN  IF r.result = Raise("InvalidStatsNameException")
                 THEN Done(Return("None"), r.calls, << InvalidStatNameLog(stat) >>,
                           << "validate" >> \o r.steps)
                 ELSE Done(r.result, r.calls, r.logs, << "validate" >> \o r.steps)

\* as validate_stat, but fn is called with the raw stat, not the handler's result
validate_stat_RawName(self, op, stat, a, so, c) ==
    LET handled == get_current_handler_stat_name_func(c, stat)
    IN  IF ~handled.ok
        THEN Done(Return("None"), <<>>, << InvalidStatNameLog(stat) >>, << "validate" >>)
        ELSE LET r == Undecorated(self, op, stat.chars, a, so)
             IN  IF r.result = Raise("InvalidStatsNameException")
                 THEN Done(Return("None"), r.calls, << InvalidStatNameLog(stat) >>,
                           << "validate" >> \o r.steps)
                 ELSE Done(r.result, r.calls, r.logs, << "validate" >> \o r.steps)

\* as validate_stat, but with `except Exception` for `except InvalidStatsNameException`
validate_stat_CatchAll(self, op, stat, a, so, c) ==
    LET handled == get_current_handler_stat_name_func(c, stat)
    IN  IF ~handled.ok
        THEN Done(Return("None"), <<>>, << InvalidStatNameLog(stat) >>, << "validate" >>)
        ELSE LET r == Undecorated(self, op, handled.name, a, so)
             IN  IF r.result.kind = "raise"
                 THEN Done(Return("None"), r.calls, << InvalidStatNameLog(stat) >>,
                           << "validate" >> \o r.steps)
                 ELSE Done(r.result, r.calls, r.logs, << "validate" >> \o r.steps)

\* as validate_stat, but the handler is fixed to the default one when the
\* decorator is applied, and the configuration is not read at the call
validate_stat_HandlerFixed(self, op, stat, a, so, c) ==
    LET handled == stat_name_default_handler(stat)
    IN  IF ~handled.ok
        THEN Done(Return("None"), <<>>, << InvalidStatNameLog(stat) >>, << "validate" >>)
        ELSE LET r == Undecorated(self, op, handled.name, a, so)
             IN  IF r.result = Raise("InvalidStatsNameException")
                 THEN Done(Return("None"), r.calls, << InvalidStatNameLog(stat) >>,
                           << "validate" >> \o r.steps)
                 ELSE Done(r.result, r.calls, r.logs, << "validate" >> \o r.steps)

\* as validate_stat, but the try block ends after the handler call, so an
\* InvalidStatsNameException raised by fn is not caught
validate_stat_TryAroundHandler(self, op, stat, a, so, c) ==
    LET handled == get_current_handler_stat_name_func(c, stat)
    IN  IF ~handled.ok
        THEN Done(Return("None"), <<>>, << InvalidStatNameLog(stat) >>, << "validate" >>)
        ELSE LET r == Undecorated(self, op, handled.name, a, so)
             IN  Done(r.result, r.calls, r.logs, << "validate" >> \o r.steps)

\* validate_stat(fn).wrapper: the decorated method op of the logger self, called
\* with the raw stat under the configuration c
validate_stat(self, op, stat, a, so, c) ==
    LET handled == get_current_handler_stat_name_func(c, stat)
    IN  IF ~handled.ok
        THEN Done(Return("None"), <<>>, << InvalidStatNameLog(stat) >>, << "validate" >>)
        ELSE LET r == Undecorated(self, op, handled.name, a, so)
             IN  IF r.result = Raise("InvalidStatsNameException")
                 THEN Done(Return("None"), r.calls, << InvalidStatNameLog(stat) >>,
                           << "validate" >> \o r.steps)
                 ELSE Done(r.result, r.calls, r.logs, << "validate" >> \o r.steps)

\* DummyStatsLogger.incr/decr/gauge/timing: nothing happens
DummyStatsLogger_call(op, stat, a) == Done(Return("None"), <<>>, <<>>, <<>>)

\* Stats.<op>(stat, ...): _Stats.__getattr__ hands the call to _Stats.instance
Stats_call(inst, op, stat, a, so, c) ==
    IF inst.kind = "dummy"
    THEN DummyStatsLogger_call(op, stat, a)
    ELSE validate_stat(inst, op, stat, a, so, c)

(***************************************************************************)
(* The inputs of the emission calls.                                       *)
(***************************************************************************)
Ops == {"incr", "decr", "gauge", "timing"}

\* "B.x", "c.d", "a b" and a value that is not a string
StatNames ==
    { Str(<< "B", ".", "x" >>), Str(<< "c", ".", "d" >>), Str(<< "a", " ", "b" >>), NotAString }

\* the caller's arguments: count/value/dt (v), rate, delta and tags; only the
\* methods of SafeDogStatsdLogger take tags
CallArgs(kind) ==
    { [v |-> 1, rate |-> 1, delta |-> FALSE, tags |-> None] }
    \cup (IF kind = "dog"
          THEN { [v |-> 2, rate |-> 3, delta |-> TRUE, tags |-> Some(<< "t1" >>)] }
          ELSE { [v |-> 2, rate |-> 3, delta |-> TRUE, tags |-> None] })

NoCall ==
    [ op |-> "none", stat |-> NotAString, a |-> [v |-> 0, rate |-> 0, delta |-> FALSE, tags |-> None],
      so |-> Return("None"), handler |-> "default", inst |-> NoInstance,
      out |-> Done(Return("None"), <<>>, <<>>, <<>>) ]

\* no direct call: the functions are only used through the loggers
NoProbe ==
    [ fn |-> "none", allow_list |-> None, stat |-> NotAString, done |-> FALSE,
      stored |-> None, accepted |-> FALSE, handled |-> Invalid ]

(***************************************************************************)
(* State.                                                                  *)
(***************************************************************************)
VARIABLES
    conf,        \* the configuration
    instance,    \* _Stats.instance
    module,      \* "loaded" once an import of the module has completed
    loading,     \* the thread that is executing the module body, 0 if none
    pc,          \* per thread: where it is in _Stats.__init__
    pending,     \* per thread: the logger built, not yet stored in instance
    exc,         \* per thread: the exception raised inside the try block
    outcome,     \* per thread: how its last __init__ ended
    inits,       \* number of __init__ calls so far
    nextId,      \* next object identity
    constructed, \* number of clients constructed so far
    tagParses,   \* number of get_constant_tags calls so far
    errorLog,    \* number of "Could not configure StatsClient" entries logged
    seen,        \* per thread: the loggers its emission calls found in _Stats.instance
    last,        \* the last emission call: its inputs and what it did
    handlersUsed, \* the name handlers configured at the emission calls so far
    probe        \* a direct call of AllowListValidator or of the default handler

vars ==
    << conf, instance, module, loading, pc, pending, exc, outcome, inits, nextId,
       constructed, tagParses, errorLog, seen, last, handlersUsed, probe >>

\* the state of the process before the module is imported
Start ==
    /\ instance = NoInstance
    /\ module = "absent"
    /\ loading = 0
    /\ pc = [t \in Threads |-> "idle"]
    /\ pending = [t \in Threads |-> NoInstance]
    /\ exc = [t \in Threads |-> "none"]
    /\ outcome = [t \in Threads |-> "none"]
    /\ inits = 0
    /\ nextId = 1
    /\ constructed = 0
    /\ tagParses = 0
    /\ errorLog = 0
    /\ seen = [t \in Threads |-> {}]
    /\ last = NoCall
    /\ handlersUsed = {}

(***************************************************************************)
(* _Stats.__init__, one step per action.                                   *)
(***************************************************************************)
\* as SelectBranch, but statsd_on is tested before statsd_datadog_enabled
SelectBranch_StatsdFirst(c) ==
    IF c.statsd_on THEN "statsd"
    ELSE IF c.statsd_datadog_enabled # "absent" /\ c.statsd_datadog_enabled = "True"
    THEN "dog"
    ELSE "dummy"

\* the branch of the if/elif/else of __init__ under the configuration c
SelectBranch(c) ==
    IF c.statsd_datadog_enabled # "absent" /\ c.statsd_datadog_enabled = "True"
    THEN "dog"
    ELSE IF c.statsd_on THEN "statsd"
    ELSE "dummy"

\* as Caught, for `except ImportError`
Caught_ImportOnly(e) == e \in {"ImportError"}

\* as Caught, for `except Exception`
Caught_Everything(e) == e \in {"socket.gaierror", "ImportError", "AirflowConfigException"}

\* except (socket.gaierror, ImportError)
Caught(e) == e \in {"socket.gaierror", "ImportError"}

\* what the environment does to a construction: the library import fails, the
\* client constructor fails to resolve the host, or neither
Failures == {"none", "ImportError", "socket.gaierror"}

\* as NeedsResolution, but the test is inverted: `is not None`
NeedsResolution_Never(inst) == inst.kind # "none"

\* as NeedsResolution, but every class creation resolves
NeedsResolution_Always(inst) == TRUE

\* as NeedsResolution, but a cached DummyStatsLogger counts as no logger
NeedsResolution_UnlessConfigured(inst) == inst.kind \in {"none", "dummy"}

\* if cls.__class__.instance is None
NeedsResolution(inst) == inst.kind = "none"

\* __init__ returns to the class statement that called it; when that is the
\* statement of the module body, the import completes
Returned(t) ==
    IF loading = t
    THEN loading' = 0 /\ module' = "loaded"
    ELSE UNCHANGED << loading, module >>

\* an exception leaves __init__; when the module body called it, the import
\* fails with that exception and the module stays unloaded
Raised(t) ==
    IF loading = t
    THEN loading' = 0 /\ module' = "absent"
    ELSE UNCHANGED << loading, module >>

\* __init__ is entered and tests `cls.__class__.instance is None`
InitEnter(t) ==
    /\ pc[t] \in {"idle", "done"}
    /\ inits < MaxInits
    /\ inits' = inits + 1
    /\ exc' = [exc EXCEPT ![t] = "none"]
    /\ pending' = [pending EXCEPT ![t] = NoInstance]
    /\ IF NeedsResolution(instance)
       THEN /\ pc' = [pc EXCEPT ![t] = "select"]
            /\ outcome' = [outcome EXCEPT ![t] = "running"]
       ELSE /\ pc' = [pc EXCEPT ![t] = "done"]
            /\ outcome' = [outcome EXCEPT ![t] = "returned"]
    /\ UNCHANGED << conf, instance, nextId, constructed, tagParses, errorLog, seen, last,
                    handlersUsed, probe >>

\* a thread imports the module for the first time.  The interpreter runs the
\* module body once, in the first thread that imports it and under the import
\* lock of the module: the threads that import it meanwhile wait for that
\* import to end.  The body runs the statement `class Stats(metaclass=_Stats)`,
\* which calls __init__.
ImportStats(t) ==
    /\ module = "absent"
    /\ loading = 0
    /\ InitEnter(t)
    /\ IF NeedsResolution(instance)
       THEN loading' = t /\ module' = module
       ELSE loading' = 0 /\ module' = "loaded"

\* a thread that has the module creates another class with the metaclass
\* (a subclass of Stats): __init__ runs again
CreateClass(t) ==
    /\ module = "loaded"
    /\ InitEnter(t)
    /\ UNCHANGED << module, loading >>

\* the flags are read and the branch is taken; the else branch builds the
\* DummyStatsLogger
Select(t) ==
    /\ pc[t] = "select"
    /\ LET b == SelectBranch(conf)
       IN  IF b = "dummy"
           THEN /\ pending' = [pending EXCEPT ![t] = DummyStatsLogger(nextId)]
                /\ nextId' = nextId + 1
                /\ pc' = [pc EXCEPT ![t] = "assign"]
           ELSE /\ pc' = [pc EXCEPT ![t] = b]
                /\ UNCHANGED << pending, nextId >>
    /\ UNCHANGED << conf, instance, module, loading, exc, outcome, inits, constructed,
                    tagParses, errorLog, seen, last, handlersUsed, probe >>

\* _Stats.get_statsd_logger
get_statsd_logger(t) ==
    /\ pc[t] = "statsd"
    /\ \E f \in Failures :
         IF f = "ImportError"
         THEN \* from statsd import StatsClient
              /\ exc' = [exc EXCEPT ![t] = "ImportError"]
              /\ pc' = [pc EXCEPT ![t] = "raised"]
              /\ UNCHANGED << pending, nextId, constructed >>
         ELSE IF conf.statsd_custom_client_path = "other"
         THEN \* not issubclass(stats_class, StatsClient)
              /\ exc' = [exc EXCEPT ![t] = "AirflowConfigException"]
              /\ pc' = [pc EXCEPT ![t] = "raised"]
              /\ UNCHANGED << pending, nextId, constructed >>
         ELSE IF f = "socket.gaierror"
         THEN \* stats_class(host=..., port=..., prefix=...)
              /\ exc' = [exc EXCEPT ![t] = "socket.gaierror"]
              /\ pc' = [pc EXCEPT ![t] = "raised"]
              /\ UNCHANGED << pending, nextId, constructed >>
         ELSE LET stats_class == IF conf.statsd_custom_client_path = "subclass"
                                 THEN "CustomStatsClient" ELSE "StatsClient"
                  statsd == Client(nextId, stats_class, <<>>)
              IN  /\ constructed' = constructed + 1
                  /\ pending' = [pending EXCEPT ![t] =
                                   SafeStatsdLogger(nextId, statsd,
                                                    AllowListValidator(conf.statsd_allow_list))]
                  /\ nextId' = nextId + 1
                  /\ pc' = [pc EXCEPT ![t] = "assign"]
                  /\ UNCHANGED exc
    /\ UNCHANGED << conf, instance, module, loading, outcome, inits, tagParses, errorLog,
                    seen, last, handlersUsed, probe >>

\* _Stats.get_dogstatsd_logger
get_dogstatsd_logger(t) ==
    /\ pc[t] = "dog"
    /\ \E f \in Failures :
         IF f = "ImportError"
         THEN \* from datadog import DogStatsd
              /\ exc' = [exc EXCEPT ![t] = "ImportError"]
              /\ pc' = [pc EXCEPT ![t] = "raised"]
              /\ UNCHANGED << pending, nextId, constructed, tagParses >>
         ELSE IF f = "socket.gaierror"
         THEN \* DogStatsd(..., constant_tags=cls.get_constant_tags())
              /\ tagParses' = tagParses + 1
              /\ exc' = [exc EXCEPT ![t] = "socket.gaierror"]
              /\ pc' = [pc EXCEPT ![t] = "raised"]
              /\ UNCHANGED << pending, nextId, constructed >>
         ELSE LET dogstatsd == Client(nextId, "DogStatsd", get_constant_tags(conf))
              IN  /\ tagParses' = tagParses + 1
                  /\ constructed' = constructed + 1
                  /\ pending' = [pending EXCEPT ![t] =
                                   SafeDogStatsdLogger(nextId, dogstatsd,
                                                       AllowListValidator(conf.statsd_allow_list))]
                  /\ nextId' = nextId + 1
                  /\ pc' = [pc EXCEPT ![t] = "assign"]
                  /\ UNCHANGED exc
    /\ UNCHANGED << conf, instance, module, loading, outcome, inits, errorLog, seen, last,
                    handlersUsed, probe >>

\* cls.__class__.instance = <the logger built>, and __init__ returns
Assign(t) ==
    /\ pc[t] = "assign"
    /\ instance' = pending[t]
    /\ pc' = [pc EXCEPT ![t] = "done"]
    /\ outcome' = [outcome EXCEPT ![t] = "returned"]
    /\ pending' = [pending EXCEPT ![t] = NoInstance]
    /\ Returned(t)
    /\ UNCHANGED << conf, exc, inits, nextId, constructed, tagParses, errorLog, seen, last,
                    handlersUsed, probe >>

\* as Except, but the DummyStatsLogger is stored in a `finally` clause, so
\* an exception that leaves __init__ leaves a logger cached too
Except_Finally(t) ==
    /\ pc[t] = "raised"
    /\ pc' = [pc EXCEPT ![t] = "done"]
    /\ instance' = DummyStatsLogger(nextId)
    /\ nextId' = nextId + 1
    /\ IF Caught(exc[t])
       THEN /\ errorLog' = errorLog + 1
            /\ outcome' = [outcome EXCEPT ![t] = "returned"]
            /\ Returned(t)
       ELSE /\ outcome' = [outcome EXCEPT ![t] = exc[t]]
            /\ Raised(t)
            /\ UNCHANGED errorLog
    /\ UNCHANGED << conf, pending, exc, inits, constructed, tagParses, seen, last,
                    handlersUsed, probe >>

\* an exception leaves the try block: the except clause logs it and stores a
\* DummyStatsLogger, or the exception leaves __init__
Except(t) ==
    /\ pc[t] = "raised"
    /\ pc' = [pc EXCEPT ![t] = "done"]
    /\ IF Caught(exc[t])
       THEN /\ errorLog' = errorLog + 1
            /\ instance' = DummyStatsLogger(nextId)
            /\ nextId' = nextId + 1
            /\ outcome' = [outcome EXCEPT ![t] = "returned"]
            /\ Returned(t)
       ELSE /\ outcome' = [outcome EXCEPT ![t] = exc[t]]
            /\ Raised(t)
            /\ UNCHANGED << errorLog, instance, nextId >>
    /\ UNCHANGED << conf, pending, exc, inits, constructed, tagParses, seen, last,
                    handlersUsed, probe >>

(***************************************************************************)
(* Emission and configuration changes.                                     *)
(***************************************************************************)
\* a thread that has the module calls Stats.<op>(stat, ...); the client does
\* so when called
Emit(t, op, stat, a, so) ==
    /\ module = "loaded"
    /\ pc[t] \in {"idle", "done"}
    /\ instance.kind # "none"
    /\ a \in CallArgs(instance.kind)
    /\ last' = [ op |-> op, stat |-> stat, a |-> a, so |-> so,
                 handler |-> conf.stat_name_handler, inst |-> instance,
                 out |-> Stats_call(instance, op, stat, a, so, conf) ]
    /\ handlersUsed' = handlersUsed \cup {conf.stat_name_handler}
    /\ seen' = [seen EXCEPT ![t] = @ \cup {instance.id}]
    /\ UNCHANGED << conf, instance, module, loading, pc, pending, exc, outcome, inits,
                    nextId, constructed, tagParses, errorLog, probe >>

\* one option of the configuration is changed at run time
SetConf(c) ==
    /\ c \in Configs
    /\ Cardinality({k \in ConfKeys : c[k] # conf[k]}) = 1
    /\ conf' = c
    /\ UNCHANGED << instance, module, loading, pc, pending, exc, outcome, inits, nextId,
                    constructed, tagParses, errorLog, seen, last, handlersUsed, probe >>

AllArgs == CallArgs("dog") \cup CallArgs("statsd")

\* the steps of _Stats.__init__ taken by thread t
Resolve(t) ==
    \/ ImportStats(t)
    \/ CreateClass(t)
    \/ Select(t)
    \/ get_statsd_logger(t)
    \/ get_dogstatsd_logger(t)
    \/ Assign(t)
    \/ Except(t)

(***************************************************************************)
(* Spec: backend resolution.  Every thread may import the module, and once *)
(* it is loaded create classes with the metaclass and call Stats.incr; the *)
(* options that resolution reads start at any value and may change at any  *)
(* time; the constant tags are "k:v,e" and the name handler is the default.*)
(***************************************************************************)
ResolveConfigs ==
    {c \in Configs : /\ c.stat_name_handler = "default"
                     /\ ~c.statsd_datadog_tags.isNone}

GatewayName == Str(<< "B", ".", "x" >>)
GatewayArgs == [v |-> 1, rate |-> 1, delta |-> FALSE, tags |-> None]

Init == Start /\ conf \in ResolveConfigs /\ probe = NoProbe

Next ==
    \/ \E t \in Threads : Resolve(t)
    \/ \E t \in Threads : Emit(t, "incr", GatewayName, GatewayArgs, Return("r1"))
    \/ \E c \in ResolveConfigs : SetConf(c)

Spec == Init /\ [][Next]_vars

(***************************************************************************)
(* SpecDispatch: the emission calls.  One thread imports the module; the   *)
(* selection flags start at any value, the allow list and the name handler *)
(* start at any value and may change at any time; the emission calls draw  *)
(* their operation, name, arguments and client behaviour from all inputs.  *)
(***************************************************************************)
DispatchConfigs ==
    {c \in Configs : /\ c.statsd_custom_client_path = "absent"
                     /\ c.statsd_datadog_tags = None
                     /\ c.statsd_datadog_enabled # "False"}

MainThread == 1

InitDispatch == Start /\ conf \in DispatchConfigs /\ probe = NoProbe

NextDispatch ==
    \/ Resolve(MainThread)
    \/ \E op \in Ops, stat \in StatNames, a \in AllArgs, so \in SinkOutcomes :
         Emit(MainThread, op, stat, a, so)
    \/ \E c \in DispatchConfigs :
         /\ c.statsd_datadog_enabled = conf.statsd_datadog_enabled
         /\ c.statsd_on = conf.statsd_on
         /\ SetConf(c)

SpecDispatch == InitDispatch /\ [][NextDispatch]_vars

(***************************************************************************)
(* Backend resolution (checked under Spec).                                *)
(***************************************************************************)

\* C1: backend resolution runs at most once however many threads import the
\* module for the first time together: at most one client is ever
\* constructed, the constant tags are parsed at most once, and the emission
\* calls of all threads find the same logger in _Stats.instance.
C1_ResolvedOnce ==
    /\ constructed <= 1
    /\ tagParses <= 1
    /\ Cardinality(UNION {seen[t] : t \in Threads}) <= 1
    /\ module = "loaded" => instance.kind # "none"

\* C1 witness: every thread has imported the module and emitted, all on the
\* one DogStatsd logger that the one resolution constructed
C1_Witness ==
    /\ module = "loaded"
    /\ instance.kind = "dog"
    /\ constructed = 1
    /\ tagParses = 1
    /\ \A t \in Threads : seen[t] = {instance.id}

\* C2: the branch taken follows the priority order of the flags: the datadog
\* flag present and true selects the DogStatsd logger whatever statsd_on is,
\* otherwise statsd_on selects the statsd logger, otherwise the
\* DummyStatsLogger is built; and a construction that succeeds yields the
\* logger of the branch taken.
C2_SelectionPriority ==
    [][\A t \in Threads :
         /\ (pc[t] = "select" /\ pc'[t] # "select") =>
              /\ conf.statsd_datadog_enabled = "True" => pc'[t] = "dog"
              /\ (conf.statsd_datadog_enabled # "True" /\ conf.statsd_on) => pc'[t] = "statsd"
              /\ (conf.statsd_datadog_enabled # "True" /\ ~conf.statsd_on) =>
                   (pc'[t] = "assign" /\ pending'[t].kind = "dummy")
              /\ Cardinality({b \in {"dog", "statsd", "assign"} : pc'[t] = b}) = 1
         /\ (pc[t] \in {"dog", "statsd"} /\ pc'[t] = "assign") => pending'[t].kind = pc[t]
      ]_vars

\* C2 witness: a thread is on the DogStatsd branch although statsd_on is true too
C2_Witness ==
    \E t \in Threads :
        /\ pc[t] = "assign"
        /\ pending[t].kind = "dog"
        /\ conf.statsd_datadog_enabled = "True"
        /\ conf.statsd_on

\* C7: a socket.gaierror or an ImportError raised by a step of either
\* get_statsd_logger or get_dogstatsd_logger is raised inside the try block,
\* and the except clause then ends resolution: a DummyStatsLogger is stored in
\* _Stats.instance, one error entry is logged, and __init__ returns normally.
C7_FallbackOnFailure ==
    [][\A t \in Threads :
         /\ (pc[t] \in {"statsd", "dog"} /\ exc'[t] \in {"socket.gaierror", "ImportError"}) =>
              pc'[t] = "raised"
         /\ (pc[t] = "raised" /\ exc[t] \in {"socket.gaierror", "ImportError"}
               /\ pc'[t] # "raised") =>
              /\ pc'[t] = "done"
              /\ outcome'[t] = "returned"
              /\ instance'.kind = "dummy"
              /\ errorLog' = errorLog + 1
      ]_vars

\* C7 witness: a constructor raised socket.gaierror, and __init__ returned
\* with the DummyStatsLogger cached and the error logged
C7_Witness ==
    \E t \in Threads :
        /\ pc[t] = "done"
        /\ exc[t] = "socket.gaierror"
        /\ outcome[t] = "returned"
        /\ instance.kind = "dummy"
        /\ errorLog = 1

\* C8 as stated: whenever get_statsd_logger runs with a custom client class
\* that is not a StatsClient subclass, it raises AirflowConfigException.
C8_IncompatibleClassIsFatal ==
    [][\A t \in Threads :
         (pc[t] = "statsd" /\ conf.statsd_custom_client_path = "other" /\ pc'[t] # "statsd") =>
            exc'[t] = "AirflowConfigException"
      ]_vars

\* C8 as amended: when get_statsd_logger runs with a custom client class that
\* is not a StatsClient subclass, it raises AirflowConfigException unless the
\* import of the statsd library has already failed with ImportError; no
\* client is constructed either way, and the AirflowConfigException leaves
\* __init__ to its caller with _Stats.instance untouched and nothing logged.
C8_IncompatibleClassFatalUnlessImportFails ==
    [][\A t \in Threads :
         /\ (pc[t] = "statsd" /\ conf.statsd_custom_client_path = "other"
               /\ pc'[t] # "statsd") =>
              /\ exc'[t] \in {"AirflowConfigException", "ImportError"}
              /\ pc'[t] = "raised"
              /\ constructed' = constructed
              /\ pending'[t] = pending[t]
         /\ (pc[t] = "raised" /\ exc[t] = "AirflowConfigException" /\ pc'[t] # "raised") =>
              /\ pc'[t] = "done"
              /\ outcome'[t] = "AirflowConfigException"
              /\ instance' = instance
              /\ errorLog' = errorLog
      ]_vars

\* C8 witness: an __init__ ended with AirflowConfigException at its caller
C8_Witness ==
    \E t \in Threads :
        /\ pc[t] = "done"
        /\ exc[t] = "AirflowConfigException"
        /\ outcome[t] = "AirflowConfigException"

\* C9: once a logger is cached in _Stats.instance, no step (an emission call,
\* a configuration change, another class creation) replaces or alters it.
C9_CachedInstanceNeverReplaced ==
    [][instance.kind # "none" => instance' = instance]_vars

\* C9 witness: the statsd logger resolved first is still cached after an
\* emission call, a later class creation, and configuration changes under
\* which resolution would now build another logger with another allow list
C9_Witness ==
    /\ instance.kind = "statsd"
    /\ last.op # "none"
    /\ last.inst = instance
    /\ inits = MaxInits
    /\ SelectBranch(conf) # "statsd"
    /\ instance.allow_list # AllowListValidator(conf.statsd_allow_list)

(***************************************************************************)
(* The emission calls (checked under SpecDispatch).                        *)
(***************************************************************************)
Called == last.op # "none"

\* the last call was made on a SafeStatsdLogger or a SafeDogStatsdLogger
OnDispatcher == last.inst.kind \in {"statsd", "dog"}

\* what the handler configured at the time of the last call makes of its name
LastHandled ==
    get_current_handler_stat_name_func([stat_name_handler |-> last.handler], last.stat)

LastAllowed == AllowListTest(last.inst.allow_list, LastHandled.name)

\* the name, the value and the rate a client call was given
CallName(call) == IF last.inst.kind = "statsd" THEN call.args[1] ELSE call.kwargs.metric
CallValue(call) == IF last.inst.kind = "statsd" THEN call.args[2] ELSE call.kwargs.value
CallRate(call) == IF last.inst.kind = "statsd" THEN call.args[3] ELSE call.kwargs.sample_rate

\* the client method each operation stands for
ClientMethod(kind, op) ==
    IF kind = "dog" /\ op = "incr" THEN "increment"
    ELSE IF kind = "dog" /\ op = "decr" THEN "decrement"
    ELSE op

\* C3: a call on either validating logger whose name the active handler
\* rejects with InvalidStatsNameException returns None, writes exactly one
\* error entry to the log and calls no method of the client.
C3_InvalidNameDropped ==
    (Called /\ OnDispatcher /\ ~LastHandled.ok) =>
        /\ last.out.result = Return("None")
        /\ Len(last.out.logs) = 1
        /\ last.out.logs[1].level = "error"
        /\ last.out.calls = <<>>

\* C3 witness: a gauge call on a SafeStatsdLogger with the name "a b", which
\* the default handler rejects
C3_Witness ==
    /\ Called
    /\ last.inst.kind = "statsd"
    /\ last.op = "gauge"
    /\ last.handler = "default"
    /\ last.stat = Str(<< "a", " ", "b" >>)
    /\ Len(last.out.logs) = 1

\* C4: a call whose name the handler accepts and the allow list rejects
\* returns None, writes nothing to the log and calls no method of the client.
C4_FilteredSilently ==
    (Called /\ OnDispatcher /\ LastHandled.ok /\ ~LastAllowed) =>
        /\ last.out.result = Return("None")
        /\ last.out.logs = <<>>
        /\ last.out.calls = <<>>

\* C4 witness: a timing call on a SafeDogStatsdLogger with the valid name
\* "c.d", which the allow list "a, B " rejects
C4_Witness ==
    /\ Called
    /\ last.inst.kind = "dog"
    /\ last.op = "timing"
    /\ last.stat = Str(<< "c", ".", "d" >>)
    /\ ~last.inst.allow_list.isNone
    /\ last.out.steps = << "validate", "test" >>

\* C5: a call whose name the handler accepts and the allow list accepts calls
\* the client method of the operation exactly once, with the name the handler
\* returned and the caller's value and rate, after validation and the allow
\* list test in that order, and returns what the client returned.
C5_Forwarded ==
    (Called /\ OnDispatcher /\ LastHandled.ok /\ LastAllowed) =>
        /\ Len(last.out.calls) = 1
        /\ last.out.calls[1].method = ClientMethod(last.inst.kind, last.op)
        /\ CallName(last.out.calls[1]) = LastHandled.name
        /\ CallValue(last.out.calls[1]) = last.a.v
        /\ last.op # "timing" => CallRate(last.out.calls[1]) = last.a.rate
        /\ last.out.steps = << "validate", "test", "sink" >>
        /\ last.so.kind = "return" => last.out.result = last.so

\* C5 witness: a call with the name "a b", which the custom handler turns
\* into "a_b", with rate 3, reached the DogStatsd client and returned "r1"
C5_Witness ==
    /\ Called
    /\ last.inst.kind = "dog"
    /\ last.handler = "custom"
    /\ last.stat = Str(<< "a", " ", "b" >>)
    /\ last.a.rate = 3
    /\ Len(last.out.calls) = 1
    /\ last.out.calls[1].kwargs.metric = << "a", "_", "b" >>
    /\ last.out.result = Return("r1")

\* C6: when the client raises an exception other than
\* InvalidStatsNameException, the caller gets that exception, nothing is
\* written to the log, and the client method was called once; no call ever
\* calls a client method more than once.
C6_OtherExceptionsPropagate ==
    /\ Called => Len(last.out.calls) <= 1
    /\ (Called /\ OnDispatcher /\ LastHandled.ok /\ LastAllowed
          /\ last.so.kind = "raise" /\ last.so.val # "InvalidStatsNameException") =>
            /\ last.out.result = last.so
            /\ last.out.logs = <<>>
            /\ Len(last.out.calls) = 1

\* C6 witness: the client raised OSError and the caller got it
C6_Witness ==
    /\ Called
    /\ OnDispatcher
    /\ last.so = Raise("OSError")
    /\ last.out.result = Raise("OSError")
    /\ Len(last.out.calls) = 1

\* C10 as stated: whatever resolution yields, the cached instance is a
\* validating logger, and every call through the gateway starts with the
\* validation of its name.
C10_AlwaysSafeDispatcher ==
    /\ instance.kind # "none" => instance.kind \in {"statsd", "dog"}
    /\ Called => (last.out.steps # <<>> /\ Head(last.out.steps) = "validate")

\* C10 as amended: when resolution yields the statsd or the DogStatsd client,
\* the cached instance is a SafeStatsdLogger or a SafeDogStatsdLogger holding
\* that client and an AllowListValidator built from the configured allow
\* list, and every call validates the name, then tests the allow list, before
\* it reaches the client; when resolution yields the no-op backend, the
\* cached instance is the bare DummyStatsLogger, and a call does nothing:
\* no validation, no allow list test, no log entry.
C10_DispatcherUnlessDummy ==
    /\ [](/\ instance.kind = "statsd" =>
               (instance.client.id # 0 /\ instance.client.cls \in {"StatsClient", "CustomStatsClient"})
          /\ instance.kind = "dog" =>
               (instance.client.id # 0 /\ instance.client.cls = "DogStatsd")
          /\ instance.kind = "dummy" =>
               (instance.client = NoClient /\ instance.allow_list = None)
          /\ (Called /\ OnDispatcher) =>
               /\ Head(last.out.steps) = "validate"
               /\ last.out.calls # <<>> => last.out.steps = << "validate", "test", "sink" >>
          /\ (Called /\ last.inst.kind = "dummy") =>
               last.out = Done(Return("None"), <<>>, <<>>, <<>>))
    /\ [][\A t \in Threads :
            /\ (pc[t] \in {"statsd", "dog"} /\ pc'[t] = "assign") =>
                 /\ pending'[t].kind = pc[t]
                 /\ pending'[t].allow_list = AllowListValidator(conf.statsd_allow_list)
            /\ (pc[t] = "assign" /\ pc'[t] = "done") => instance' = pending[t]
         ]_vars

\* C10 witness: after a failed construction the DummyStatsLogger is cached,
\* and a call with a name the handler rejects left no log entry
C10_Witness ==
    /\ Called
    /\ last.inst.kind = "dummy"
    /\ exc[MainThread] = "ImportError"
    /\ ~LastHandled.ok
    /\ last.out.logs = <<>>

(***************************************************************************)
(* When resolution runs (checked under Spec).                              *)
(***************************************************************************)

\* C11 as stated: resolution is lazy: until the first call of a gateway
\* operation no __init__ has read the selection flags, no client has been
\* constructed, no tags have been parsed and nothing is cached.
C11_NothingResolvedBeforeFirstAccess ==
    last.op = "none" =>
        /\ \A t \in Threads : pc[t] \in {"idle", "select"}
        /\ constructed = 0
        /\ tagParses = 0
        /\ instance.kind = "none"

\* C11 as amended: resolution is eager: it is started by the import of the
\* module (the class statement), never by a call of a gateway operation; once
\* the import has completed a logger is cached, whether or not any operation
\* has been called; and a call of a gateway operation is made on the cached
\* logger and reads no flag, constructs nothing and leaves the cache as it is.
C11_ResolvedAtImport ==
    /\ [](module = "loaded" => instance.kind # "none")
    /\ [][\A t \in Threads :
            (pc[t] # "select" /\ pc'[t] = "select") =>
                /\ module = "absent"
                /\ loading' = t
                /\ last' = last
                /\ seen' = seen
         ]_vars
    /\ [][(last' # last \/ seen' # seen) =>
            /\ module = "loaded"
            /\ instance.kind # "none"
            /\ last'.inst = instance
            /\ instance' = instance
            /\ pc' = pc
            /\ inits' = inits
            /\ constructed' = constructed
            /\ tagParses' = tagParses
         ]_vars

\* C11 witness: one __init__ ran, at import, and built the statsd client; a
\* gateway operation was then called and found that logger cached
C11_Witness ==
    /\ module = "loaded"
    /\ inits = 1
    /\ constructed = 1
    /\ instance.kind = "statsd"
    /\ last.op # "none"
    /\ last.inst = instance
    /\ \E t \in Threads : seen[t] = {instance.id}

(***************************************************************************)
(* The name handler in force (checked under SpecDispatch).                 *)
(***************************************************************************)

\* C12: every call on a validating logger is validated by the handler that
\* the configuration names at the time of that call, the default handler
\* when none is configured, whatever handler was configured when the logger
\* was built or at the call before: a name that handler rejects is logged
\* and reaches no client method, and a name it accepts reaches the client,
\* if at all, as that handler returned it, and does reach it when the allow
\* list admits it.
C12_HandlerReadOnEveryCall ==
    [][((last' # last \/ handlersUsed' # handlersUsed) /\ last'.inst.kind \in {"statsd", "dog"}) =>
         LET h == IF conf.stat_name_handler = "custom"
                  THEN custom_stat_name_handler(last'.stat)
                  ELSE stat_name_default_handler(last'.stat)
             calls == last'.out.calls
         IN  /\ last'.inst = instance
             /\ ~h.ok =>
                  /\ calls = <<>>
                  /\ last'.out.logs = << InvalidStatNameLog(last'.stat) >>
                  /\ last'.out.result = Return("None")
             /\ h.ok =>
                  /\ last'.out.logs = <<>> \/ last'.so = Raise("InvalidStatsNameException")
                  /\ \A i \in DOMAIN calls :
                       (IF instance.kind = "statsd"
                        THEN calls[i].args[1] ELSE calls[i].kwargs.metric) = h.name
                  /\ AllowListTest(instance.allow_list, h.name) => Len(calls) = 1
      ]_vars

\* C12 witness: calls were made on the one cached logger while the custom
\* handler was configured, and the last call, with the name "a b", was made
\* once the configuration named the default handler, which rejected it
C12_Witness ==
    /\ handlersUsed = {"custom", "default"}
    /\ last.handler = "default"
    /\ last.inst = instance
    /\ last.inst.kind \in {"statsd", "dog"}
    /\ last.stat = Str(<< "a", " ", "b" >>)
    /\ last.out.logs = << InvalidStatNameLog(last.stat) >>
    /\ last.out.calls = <<>>

(***************************************************************************)
(* SpecFunctions: AllowListValidator and stat_name_default_handler called  *)
(* directly.  The initial state holds the arguments of one call, drawn     *)
(* from the sets below; the one step of a behaviour makes the call.        *)
(***************************************************************************)
\* the longest allow list string, name and name stem that are enumerated
MaxListLen == 3
MaxNameLen == 3
MaxStemLen == 2

\* all strings over the alphabet A of length at most n
Words(A, n) == UNION {[1..k -> A] : k \in 0..n}

ListAlphabet == {"a", "B", ",", " "}
NameAlphabet == {"a", "A", "b", " "}

\* "foo", "foo,bar", "foo," and " Foo ,bar"
ListExamples ==
    { << "f", "o", "o" >>, << "f", "o", "o", ",", "b", "a", "r" >>, << "f", "o", "o", "," >>,
      << " ", "F", "o", "o", " ", ",", "b", "a", "r" >> }

\* "foo.bar", "foobar", "baz" and " FOO.x "
NameExamples ==
    { << "f", "o", "o", ".", "b", "a", "r" >>, << "f", "o", "o", "b", "a", "r" >>,
      << "b", "a", "z" >>, << " ", "F", "O", "O", ".", "x", " " >> }

\* the allow_list arguments of AllowListValidator(allow_list)
AllowLists ==
    {None} \cup {Some(w) : w \in Words(ListAlphabet, MaxListLen) \cup ListExamples}

\* the stat arguments of AllowListValidator.test(stat)
TestNames == Words(NameAlphabet, MaxNameLen) \cup NameExamples

\* the stat_name arguments of stat_name_default_handler: a value that is not
\* a string, and the strings made of 0, max_length - 2, max_length - 1 or
\* max_length letters "x" followed by a stem of allowed and other characters
StemAlphabet == {"a", "Z", "0", "_", ".", "-", " ", "!"}
PadLens == {0, max_length - 2, max_length - 1, max_length}
Pad(n) == [i \in 1..n |-> "x"]
HandlerStats ==
    {NotAString} \cup {Str(Pad(n) \o w) : n \in PadLens, w \in Words(StemAlphabet, MaxStemLen)}

\* the initial state of a direct call test(stat) on AllowListValidator(al)
TestProbe(al, name) ==
    [NoProbe EXCEPT !.fn = "AllowListValidator.test", !.allow_list = al, !.stat = Str(name)]

\* the initial state of a direct call stat_name_default_handler(stat)
HandlerProbe(stat) == [NoProbe EXCEPT !.fn = "stat_name_default_handler", !.stat = stat]

\* AllowListValidator(allow_list).test(stat)
TestAllowList ==
    /\ probe.fn = "AllowListValidator.test"
    /\ ~probe.done
    /\ LET validator == AllowListValidator(probe.allow_list)
       IN  probe' = [probe EXCEPT !.done = TRUE,
                                  !.stored = validator,
                                  !.accepted = AllowListTest(validator, probe.stat.chars)]
    /\ UNCHANGED << conf, instance, module, loading, pc, pending, exc, outcome, inits,
                    nextId, constructed, tagParses, errorLog, seen, last, handlersUsed >>

\* stat_name_default_handler(stat_name)
HandleName ==
    /\ probe.fn = "stat_name_default_handler"
    /\ ~probe.done
    /\ probe' = [probe EXCEPT !.done = TRUE, !.handled = stat_name_default_handler(probe.stat)]
    /\ UNCHANGED << conf, instance, module, loading, pc, pending, exc, outcome, inits,
                    nextId, constructed, tagParses, errorLog, seen, last, handlersUsed >>

\* no backend is configured
UnsetConf ==
    [ statsd_datadog_enabled |-> "absent", statsd_on |-> FALSE,
      statsd_custom_client_path |-> "absent", statsd_allow_list |-> None,
      statsd_datadog_tags |-> None, stat_name_handler |-> "default" ]

InitFunctions ==
    /\ Start
    /\ conf = UnsetConf
    /\ \/ \E al \in AllowLists, name \in TestNames : probe = TestProbe(al, name)
       \/ \E stat \in HandlerStats : probe = HandlerProbe(stat)

NextFunctions ==
    \/ TestAllowList
    \/ HandleName

SpecFunctions == InitFunctions /\ [][NextFunctions]_vars

(***************************************************************************)
(* AllowListValidator (checked under SpecFunctions).                       *)
(***************************************************************************)
\* the direct call made was AllowListValidator(allow_list).test(stat)
Tested == probe.fn = "AllowListValidator.test" /\ probe.done

\* an allow list was given: not None and not the empty string
Configured == ~probe.allow_list.isNone /\ probe.allow_list.v # <<>>

\* p is a prefix of s
IsPrefixOf(p, s) == Len(p) <= Len(s) /\ \A i \in 1..Len(p) : s[i] = p[i]

\* s without its leading and trailing whitespace
Trimmed(s) ==
    LET inked == {i \in 1..Len(s) : s[i] \notin Whitespace}
    IN  IF inked = {} THEN <<>>
        ELSE SubSeq(s, CHOOSE i \in inked : \A j \in inked : i <= j,
                       CHOOSE i \in inked : \A j \in inked : j <= i)

\* the comma-free stretches of s that a comma or an end of s bounds on each side
Tokens(s) ==
    { SubSeq(s, i, j) : << i, j >> \in
        { ij \in (1..Len(s) + 1) \X (0..Len(s)) :
            /\ ij[1] <= ij[2] + 1
            /\ ij[1] = 1 \/ s[ij[1] - 1] = ","
            /\ ij[2] = Len(s) \/ s[ij[2] + 1] = ","
            /\ \A k \in ij[1]..ij[2] : s[k] # "," } }

\* the prefixes an allow list string stands for
Prefixes(s) == { Lower(Trimmed(tok)) : tok \in Tokens(s) }

\* C13: test on a validator built from None or from the empty string is true
\* for every name; on a validator built from any other string it is true
\* exactly when the name, trimmed and lower-cased, starts with one of the
\* trimmed, lower-cased items between the commas of that string: "foo" admits
\* "foo.bar" and "foobar", and "foo,bar" does not admit "baz".
C13_PrefixMatch ==
    Tested =>
        LET name == probe.stat.chars
            list == probe.allow_list.v
        IN  /\ ~Configured => probe.accepted
            /\ Configured =>
                 (probe.accepted <=> \E p \in Prefixes(list) : IsPrefixOf(p, Lower(Trimmed(name))))
            /\ (list = << "f", "o", "o" >>
                  /\ name \in {<< "f", "o", "o", ".", "b", "a", "r" >>,
                               << "f", "o", "o", "b", "a", "r" >>}) => probe.accepted
            /\ (list = << "f", "o", "o", ",", "b", "a", "r" >> /\ name = << "b", "a", "z" >>) =>
                 ~probe.accepted

\* C13 witness: the validator built from " Foo ,bar" admitted " FOO.x "
C13_Witness ==
    /\ Tested
    /\ probe.allow_list = Some(<< " ", "F", "o", "o", " ", ",", "b", "a", "r" >>)
    /\ probe.stat = Str(<< " ", "F", "O", "O", ".", "x", " " >>)
    /\ probe.stored = Some(<< << "f", "o", "o" >>, << "b", "a", "r" >> >>)
    /\ probe.accepted

\* C17: an allow list string that is not empty but holds an item that is
\* empty once trimmed (as "foo,", "a,,B" or " ") stores the empty prefix, and
\* test is then true for every name, as it is when no allow list is given.
C17_EmptyItemAdmitsAll ==
    (Tested /\ Configured /\ \E tok \in Tokens(probe.allow_list.v) : Trimmed(tok) = <<>>) =>
        /\ ~probe.stored.isNone
        /\ \E i \in DOMAIN probe.stored.v : probe.stored.v[i] = <<>>
        /\ probe.accepted

\* C17 witness: the validator built from "foo," admitted "baz"
C17_Witness ==
    /\ Tested
    /\ probe.allow_list = Some(<< "f", "o", "o", "," >>)
    /\ probe.stat = Str(<< "b", "a", "z" >>)
    /\ probe.stored = Some(<< << "f", "o", "o" >>, <<>> >>)
    /\ probe.accepted

(***************************************************************************)
(* stat_name_default_handler (checked under SpecFunctions).                *)
(***************************************************************************)
\* the direct call made was stat_name_default_handler(stat_name)
Handled == probe.fn = "stat_name_default_handler" /\ probe.done

\* the ASCII letters, the digits, '_', '.' and '-'
NameCharacters ==
    { "a", "b", "c", "d", "e", "f", "g", "h", "i", "j", "k", "l", "m",
      "n", "o", "p", "q", "r", "s", "t", "u", "v", "w", "x", "y", "z",
      "A", "B", "C", "D", "E", "F", "G", "H", "I", "J", "K", "L", "M",
      "N", "O", "P", "Q", "R", "S", "T", "U", "V", "W", "X", "Y", "Z",
      "0", "1", "2", "3", "4", "5", "6", "7", "8", "9", "_", ".", "-" }

\* C14: the default handler returns a string of at most 250 characters, all
\* of them ASCII letters, digits, '_', '.' or '-', exactly as it was given;
\* it raises InvalidStatsNameException, and returns no name at all, for a
\* string of more than 250 characters, for a string with any other
\* character, and for a value that is not a string.
C14_IdentityOnValidNames ==
    Handled =>
        LET stat == probe.stat
            wellFormed == /\ stat.isstr
                          /\ Len(stat.chars) <= 250
                          /\ \A i \in 1..Len(stat.chars) : stat.chars[i] \in NameCharacters
        IN  /\ wellFormed => (probe.handled.ok /\ probe.handled.name = stat.chars)
            /\ ~wellFormed => (~probe.handled.ok /\ probe.handled.name = <<>>)

\* C14 witness: a name of exactly 250 allowed characters came back unchanged
C14_Witness ==
    /\ Handled
    /\ probe.stat.isstr
    /\ Len(probe.stat.chars) = 250
    /\ probe.stat.chars[250] = "-"
    /\ probe.handled.ok
    /\ probe.handled.name = probe.stat.chars

(***************************************************************************)
(* After the fatal configuration error (checked under Spec).               *)
(***************************************************************************)

\* C15: when the AirflowConfigException for an incompatible custom client
\* class leaves __init__, _Stats.instance is None as it was before, and the
\* import that ran __init__ fails; as long as no import has succeeded nothing
\* is cached; and an __init__ that starts with nothing cached goes through
\* resolution again from its first step, the reading of the flags.
C15_NothingCachedAfterFatalError ==
    /\ []((module = "absent" /\ loading = 0) => instance.kind = "none")
    /\ [][\A t \in Threads :
            /\ (pc[t] = "raised" /\ exc[t] = "AirflowConfigException" /\ pc'[t] # "raised") =>
                 /\ instance.kind = "none"
                 /\ instance'.kind = "none"
                 /\ outcome'[t] = "AirflowConfigException"
                 /\ module' = "absent"
                 /\ loading' = 0
                 /\ nextId' = nextId
            /\ (pc[t] \in {"idle", "done"} /\ pc'[t] # pc[t] /\ instance.kind = "none") =>
                 /\ pc'[t] = "select"
                 /\ inits' = inits + 1
                 /\ pending'[t] = NoInstance
                 /\ exc'[t] = "none"
         ]_vars

\* C15 witness: the __init__ of one thread ended with AirflowConfigException,
\* and after the configuration was changed the __init__ of another thread
\* resolved the statsd logger
C15_Witness ==
    \E t, u \in Threads :
        /\ t # u
        /\ outcome[t] = "AirflowConfigException"
        /\ outcome[u] = "returned"
        /\ exc[u] = "none"
        /\ inits = 2
        /\ module = "loaded"
        /\ instance.kind = "statsd"
        /\ constructed = 1

(***************************************************************************)
(* An InvalidStatsNameException from the client (checked under             *)
(* SpecDispatch).                                                          *)
(***************************************************************************)

\* C16: when the handler accepts the name and the allow list admits it, and
\* the client method itself raises InvalidStatsNameException, the call
\* returns None to its caller, the client method has been called exactly
\* once, and exactly one entry is logged: the error entry "Invalid stat name"
\* with the name as the caller gave it, not as the handler returned it.
C16_InvalidNameFromClientCaught ==
    (Called /\ OnDispatcher /\ LastHandled.ok /\ LastAllowed
       /\ last.so = Raise("InvalidStatsNameException")) =>
        /\ last.out.result = Return("None")
        /\ Len(last.out.calls) = 1
        /\ last.out.calls[1].method = ClientMethod(last.inst.kind, last.op)
        /\ last.out.logs = << [level |-> "error", msg |-> "Invalid stat name", stat |-> last.stat] >>
        /\ last.out.steps = << "validate", "test", "sink" >>

\* C16 witness: under the custom handler Stats.incr("a b") reached the
\* statsd client as "a_b", the client raised InvalidStatsNameException, and
\* the entry logged names "a b"
C16_Witness ==
    /\ Called
    /\ last.inst.kind = "statsd"
    /\ last.op = "incr"
    /\ last.handler = "custom"
    /\ last.stat = Str(<< "a", " ", "b" >>)
    /\ last.so = Raise("InvalidStatsNameException")
    /\ Len(last.out.calls) = 1
    /\ last.out.calls[1].args[1] = << "a", "_", "b" >>
    /\ last.out.logs = << InvalidStatNameLog(Str(<< "a", " ", "b" >>)) >>
    /\ last.out.result = Return("None")

====
